---------------------------- MODULE Spec2Model ----------------------------
(***************************************************************************)
(* A model of goyox86/userutils: the credential store of src/lib.rs        *)
(* (Passwd / Group parsing, password verification, lookups by id) and the  *)
(* three entry points that authenticate and launch a child process:        *)
(* src/bin/su.rs, src/bin/login.rs and src/bin/sudo.rs.                    *)
(*                                                                         *)
(* Strings that the code only compares are TLA+ strings.  Strings that     *)
(* the code takes apart or builds (database lines, decimal numbers,        *)
(* encoded hashes) are sequences of one-character strings or of tokens.    *)
(***************************************************************************)
EXTENDS Integers, Sequences, FiniteSets, TLC

VARIABLES
    prog,       \* which binary runs: "su", "login", "sudo"
    argv,       \* its command line arguments (after the program name)
    uid,        \* the caller's real user id (get_uid)
    cwd,        \* the caller's working directory, inherited by children
    passwd_db,  \* the user records the name lookup sees, in file order
    stdin,      \* what the terminal will still deliver, one item per read
    pc,         \* position in main
    user,       \* the looked-up target record (a sequence of 0 or 1 record)
    log,        \* what main has done so far, in order
    exit_code,  \* the process exit code once pc = "exited", -1 before
    files,      \* /etc/passwd and /etc/group as the lookups by id find them
    call,       \* the lookup by id that is called, and its argument
    ret         \* what the lookup returned (a sequence of 0 or 1 Option)

vars == <<prog, argv, uid, cwd, passwd_db, stdin, pc, user, log, exit_code,
          files, call, ret>>

\* the state of the binaries, and the state of the lookups by id
bin_vars == <<prog, argv, uid, cwd, passwd_db, stdin, user, log>>

store_vars == <<files, call, ret>>

---------------------------------------------------------------------------
(* Bounds of the model *)

\* longest terminal script (number of lines / control keys typed)
MaxInput == 3

\* most lines in a database file
MaxLines == 2

\* most fields in a line handed to parse
MaxFields == 8

\* most lines in a file handed to parse_file
MaxFileLines == 3

---------------------------------------------------------------------------
(* Decimal formatting and parsing: format!("{}", u32) and str::parse::<u32> *)

DigitChars == <<"0", "1", "2", "3", "4", "5", "6", "7", "8", "9">>

\* u32::MAX = 4294967295, as its decimal digits
U32MaxDigits == <<"4", "2", "9", "4", "9", "6", "7", "2", "9", "5">>

DigitValue(c) == (CHOOSE i \in 1..10 : DigitChars[i] = c) - 1

IsDigit(c) == \E i \in 1..10 : DigitChars[i] = c

RECURSIVE format_u32(_)
\* format!("{}", n) for an unsigned n: its decimal digits, most significant first
format_u32(n) ==
    IF n < 10 THEN <<DigitChars[n + 1]>>
    ELSE Append(format_u32(n \div 10), DigitChars[(n % 10) + 1])

RECURSIVE strip_zeros(_)
strip_zeros(s) ==
    IF Len(s) > 1 /\ s[1] = "0" THEN strip_zeros(Tail(s)) ELSE s

\* whether the digit string s (no leading zeros) exceeds u32::MAX
exceeds_u32(s) ==
    \/ Len(s) > Len(U32MaxDigits)
    \/ /\ Len(s) = Len(U32MaxDigits)
       /\ \E i \in 1..Len(s) :
            /\ DigitValue(s[i]) > DigitValue(U32MaxDigits[i])
            /\ \A j \in 1..(i - 1) : s[j] = U32MaxDigits[j]

RECURSIVE digits_value(_)
digits_value(s) ==
    IF s = <<>> THEN 0
    ELSE 10 * digits_value(SubSeq(s, 1, Len(s) - 1)) + DigitValue(s[Len(s)])

\* str::parse::<u32>: an optional leading '+', then one or more decimal
\* digits whose value fits 32 bits; anything else is an error.
\* The result is <<>> for Err and <<n>> for Ok(n).
parse_u32(s) ==
    LET body == IF s # <<>> /\ s[1] = "+" THEN Tail(s) ELSE s
    IN  IF body = <<>> \/ \E i \in 1..Len(body) : ~IsDigit(body[i])
        THEN <<>>
        ELSE IF exceeds_u32(strip_zeros(body)) THEN <<>>
        ELSE <<digits_value(body)>>

---------------------------------------------------------------------------
(* The password codec: Passwd::encode and Passwd::verify (argon2rs)        *)

\* The Argon2i derivation for the fixed cost parameters.  The derived key
\* is a function of the password and the salt and of nothing else; the
\* model keeps the pair itself, so two keys agree iff both inputs agree.
argon2i_key(password, salt) == <<password, salt>>

\* Passwd::encode: the self-describing string "$argon2i$params$salt$key"
encode(password, salt) ==
    <<"$argon2i", "m=4096,t=10,p=1", salt, argon2i_key(password, salt)>>

\* Encoded::from_u8: Ok iff the string has the four parts of an encoding
decodes(hash) ==
    /\ Len(hash) = 4
    /\ hash[1] = "$argon2i"
    /\ hash[2] = "m=4096,t=10,p=1"

\* verify as it would be if a hash that does not decode counted as a
\* mismatch instead of stopping the process
verify_decode_error_is_false(hash, password) ==
    IF ~decodes(hash) THEN "false"
    ELSE IF argon2i_key(password, hash[3]) = hash[4] THEN "true" ELSE "false"

\* Passwd::verify: Encoded::from_u8(hash).unwrap() panics on a hash that does
\* not decode (the empty string included); otherwise the key is recomputed
\* from the embedded salt and compared.
verify(hash, password) ==
    IF ~decodes(hash) THEN "panic"
    ELSE IF argon2i_key(password, hash[3]) = hash[4] THEN "true" ELSE "false"

---------------------------------------------------------------------------
(* Text: str::split and str::lines on sequences of characters              *)

RECURSIVE str_split(_, _)
\* str::split(sep): the pieces between the separators, at least one piece
str_split(s, sep) ==
    IF \A i \in 1..Len(s) : s[i] # sep THEN << s >>
    ELSE LET at == CHOOSE i \in 1..Len(s) :
                       s[i] = sep /\ \A j \in 1..(i - 1) : s[j] # sep
         IN  << SubSeq(s, 1, at - 1) >> \o str_split(SubSeq(s, at + 1, Len(s)), sep)

\* str::lines: split at "\n", no empty piece after a final "\n", and a
\* "\r" before the "\n" belongs to the line ending
str_lines(s) ==
    LET pieces == str_split(s, "\n")
        kept   == IF pieces[Len(pieces)] = <<>>
                  THEN SubSeq(pieces, 1, Len(pieces) - 1) ELSE pieces
        chomp(l) == IF l # <<>> /\ l[Len(l)] = "\r"
                    THEN SubSeq(l, 1, Len(l) - 1) ELSE l
    IN  [i \in 1..Len(kept) |-> chomp(kept[i])]

RECURSIVE str_join(_, _)
\* the pieces with the separator between them
str_join(pieces, sep) ==
    IF pieces = <<>> THEN <<>>
    ELSE IF Len(pieces) = 1 THEN pieces[1]
    ELSE pieces[1] \o <<sep>> \o str_join(Tail(pieces), sep)

---------------------------------------------------------------------------
(* The record model: Passwd::parse, Group::parse and the parse_file of each *)

\* Passwd::parse as it would be with the fifth and sixth pieces exchanged
Passwd_parse_fields_exchanged(line) ==
    LET parts == str_split(line, ";")
    IN  IF Len(parts) < 7 THEN <<>>
        ELSE IF parse_u32(parts[3]) = <<>> \/ parse_u32(parts[4]) = <<>> THEN <<>>
        ELSE << [user  |-> parts[1],
                 hash  |-> parts[2],
                 uid   |-> parse_u32(parts[3])[1],
                 gid   |-> parse_u32(parts[4])[1],
                 name  |-> parts[6],
                 home  |-> parts[5],
                 shell |-> parts[7]] >>

\* Passwd::parse: the first seven pieces of the line, the third and fourth
\* as u32.  The result is <<>> for Err(()) and <<record>> for Ok(record).
Passwd_parse(line) ==
    LET parts == str_split(line, ";")
    IN  IF Len(parts) < 7 THEN <<>>
        ELSE IF parse_u32(parts[3]) = <<>> \/ parse_u32(parts[4]) = <<>> THEN <<>>
        ELSE << [user  |-> parts[1],
                 hash  |-> parts[2],
                 uid   |-> parse_u32(parts[3])[1],
                 gid   |-> parse_u32(parts[4])[1],
                 name  |-> parts[5],
                 home  |-> parts[6],
                 shell |-> parts[7]] >>

RECURSIVE push_until_error(_)
\* the loop as it would be if the first line that does not parse ended it
push_until_error(results) ==
    IF results = <<>> \/ Head(results) = <<>> THEN <<>>
    ELSE Head(results) \o push_until_error(Tail(results))

RECURSIVE push_all(_)
\* the loop of both parse_file functions, given each line's parse result:
\* push the record of every line that parsed, in order, and pass over the
\* others
push_all(results) ==
    IF results = <<>> THEN <<>>
    ELSE Head(results) \o push_all(Tail(results))

\* Passwd::parse_file: always Ok(entries)
Passwd_parse_file(file_data) ==
    LET lines == str_lines(file_data)
    IN  push_all([i \in 1..Len(lines) |-> Passwd_parse(lines[i])])

\* Group::parse: the first three pieces of the line, the second as u32
Group_parse(line) ==
    LET parts == str_split(line, ";")
    IN  IF Len(parts) < 3 THEN <<>>
        ELSE IF parse_u32(parts[2]) = <<>> THEN <<>>
        ELSE << [group |-> parts[1],
                 gid   |-> parse_u32(parts[2])[1],
                 users |-> parts[3]] >>

\* Group::parse_file: always Ok(entries)
Group_parse_file(file_data) ==
    LET lines == str_lines(file_data)
    IN  push_all([i \in 1..Len(lines) |-> Group_parse(lines[i])])

---------------------------------------------------------------------------
(* The credential store: get_passwd_by_id and get_group_by_id              *)

PASSWD_FILE == "/etc/passwd"

GROUP_FILE == "/etc/group"

\* find as it would be if the scan kept the last of the entries accepted
\* (a loop without its break)
find_last(entries, hits) ==
    IF hits = {} THEN <<"None">>
    ELSE <<"Some", entries[CHOOSE i \in hits : \A j \in hits : i >= j]>>

\* Iterator::find(..).cloned(): the first of the entries the test accepts,
\* given the positions of those it accepts
find_first(entries, hits) ==
    IF hits = {} THEN <<"None">>
    ELSE <<"Some", entries[CHOOSE i \in hits : \A j \in hits : i <= j]>>

\* read_file as it would be if a file that cannot be opened or read counted
\* as an empty one (if let Ok(..) = File::open, let _ = read_to_string)
read_file_errors_ignored(file) ==
    IF file.open = "err" \/ file.read = "err" THEN <<"read", <<>> >>
    ELSE <<"read", file.data>>

\* OptionalExt::try on the result of File::open and of read_to_string: an
\* error is written to stderr and the process exits with code 1.  A call
\* ends as <<"exit", code>> or as <<"return", option>>.
read_file(file) ==
    IF file.open = "err" THEN <<"exit", 1>>
    ELSE IF file.read = "err" THEN <<"exit", 1>>
    ELSE <<"read", file.data>>

\* get_passwd_by_id, lib.rs lines 229-237
get_passwd_by_id(fs, id) ==
    LET got == read_file(fs[PASSWD_FILE])
    IN  IF got[1] = "exit" THEN got
        ELSE LET passwd_file_entries == Passwd_parse_file(got[2])
             IN  <<"return",
                   find_first(passwd_file_entries,
                              { i \in 1..Len(passwd_file_entries) :
                                    passwd_file_entries[i].uid = id })>>

\* get_group_by_id, lib.rs lines 253-261
get_group_by_id(fs, id) ==
    LET got == read_file(fs[GROUP_FILE])
    IN  IF got[1] = "exit" THEN got
        ELSE LET group_file_entries == Group_parse_file(got[2])
             IN  <<"return",
                   find_first(group_file_entries,
                              { i \in 1..Len(group_file_entries) :
                                    group_file_entries[i].gid = id })>>

---------------------------------------------------------------------------
(* The environment the three binaries run in                              *)

\* the stored hashes a record may carry: none (no password), the encoding
\* of the password "pw", and two strings that are no encoding
Hashes ==
    { <<>>,
      encode("pw", "salt"),
      <<"x">>,
      <<"$argon2i", "m=4096,t=10,p=1">> }

Passwd(u, h, i, g, n, d, sh) ==
    [user |-> u, hash |-> h, uid |-> i, gid |-> g, name |-> n,
     home |-> d, shell |-> sh]

\* the user databases: root and alice, each with any of the hashes
PasswdDbs ==
    { << Passwd("root", hr, 0, 0, "root", "/root", "/bin/ion"),
         Passwd("alice", ha, 1000, 100, "Alice", "/home/alice", "/bin/sh") >>
      : hr \in Hashes, ha \in Hashes }

\* what one read of the terminal can deliver: a line, or the end-of-input
\* key, for which read_passwd yields None
Lines == {"", "root", "alice", "nobody", "pw"}

Keys == Lines \cup {"EOT"}

RECURSIVE SeqsUpTo(_, _)
SeqsUpTo(S, n) ==
    IF n = 0 THEN { <<>> }
    ELSE LET shorter == SeqsUpTo(S, n - 1)
         IN  shorter \cup { Append(q, x) : q \in { r \in shorter : Len(r) = n - 1 }, x \in S }

Scripts == SeqsUpTo(Keys, MaxInput)

\* the command lines: the help flag, no argument, or one target / command
Argvs == { <<"--help">>, <<>>, <<"alice">>, <<"nobody">> }

\* what the spawn collaborator reports: the launch failed, the wait failed,
\* or the child ran and ended with an exit status
ChildStatuses == {0, 1, 7}

SpawnResults ==
    { <<"spawn_err">>, <<"wait_err">> } \cup { <<"exited", st>> : st \in ChildStatuses }

\* the next item the terminal delivers; past the end of the script the
\* terminal is at end of input
next_key(in) == IF in = <<>> THEN "EOT" ELSE Head(in)

rest(in) == IF in = <<>> THEN <<>> ELSE Tail(in)

\* redox_users::get_user_by_name: the first record of that name, if any
get_user_by_name(db, target) ==
    LET hits == { i \in 1..Len(db) : db[i].user = target }
    IN  IF hits = {} THEN <<>>
        ELSE << db[CHOOSE i \in hits : \A j \in hits : i <= j] >>

Event(kind, arg) == <<kind, arg>>

\* a call of verify as the log keeps it: the arguments and the result
VerifyCall(hash, password, result) ==
    [hash |-> hash, password |-> password, result |-> result]

---------------------------------------------------------------------------
(* su: src/bin/su.rs                                                       *)

\* su.rs line 72: whether su asks for a password
su_needs_password(caller, target) ==
    caller > 0 \/ target.hash # <<>>

\* su.rs spawn_shell, lines 92-101: the Command it builds.  No current_dir
\* is set, so the child keeps the caller's working directory.
su_context(target, inherited_cwd) ==
    [program |-> target.shell,
     uid     |-> target.uid,
     gid     |-> target.gid,
     cwd     |-> inherited_cwd,
     env     |-> [USER   |-> target.user,
                  UID    |-> format_u32(target.uid),
                  GROUPS |-> format_u32(target.gid),
                  HOME   |-> target.home,
                  SHELL  |-> target.shell]]

\* su.rs main, lines 48-74: arguments, lookup, and the password prompt
su_start ==
    /\ prog = "su" /\ pc = "start"
    /\ IF argv = <<"--help">>
       THEN /\ pc' = "exited" /\ exit_code' = 0
            /\ UNCHANGED <<user, log>>
       ELSE LET target_user == IF argv = <<>> THEN "root" ELSE argv[1]
                found == get_user_by_name(passwd_db, target_user)
            IN  IF found = <<>>
                THEN /\ pc' = "exited" /\ exit_code' = 1
                     /\ log' = Append(log, Event("stderr", "su: user not found"))
                     /\ UNCHANGED user
                ELSE /\ user' = found
                     /\ exit_code' = exit_code
                     /\ IF su_needs_password(uid, found[1])
                        THEN /\ pc' = "su_read_passwd"
                             /\ log' = Append(log, Event("passwd_prompt", found[1]))
                        ELSE /\ pc' = "su_spawn_88"
                             /\ log' = log
    /\ UNCHANGED <<prog, argv, uid, cwd, passwd_db, stdin>>
    /\ UNCHANGED store_vars

\* su.rs main, lines 76-86: read the password and verify it
su_read_passwd ==
    /\ prog = "su" /\ pc = "su_read_passwd"
    /\ \/ \* read_passwd fails: try() reports and exits 1
          /\ pc' = "exited" /\ exit_code' = 1
          /\ log' = Append(log, Event("read_passwd", "Err"))
          /\ UNCHANGED stdin
       \/ /\ stdin' = rest(stdin)
          /\ LET key == next_key(stdin)
                 res == verify(user[1].hash, key)
             IN  IF key = "EOT"
                 THEN \* None: the if-let is skipped, main goes on to line 88
                      /\ pc' = "su_spawn_88" /\ exit_code' = exit_code
                      /\ log' = Append(log, Event("read_passwd", "None"))
                 ELSE IF res = "panic"
                 THEN /\ pc' = "exited" /\ exit_code' = 101
                      /\ log' = log \o << Event("read_passwd", "Some"),
                                          Event("verify", VerifyCall(user[1].hash, key, "panic")) >>
                 ELSE IF res = "true"
                 THEN /\ pc' = "su_spawn_79" /\ exit_code' = exit_code
                      /\ log' = log \o << Event("read_passwd", "Some"),
                                          Event("verify", VerifyCall(user[1].hash, key, "true")) >>
                 ELSE /\ pc' = "su_spawn_88" /\ exit_code' = exit_code
                      /\ log' = log \o << Event("read_passwd", "Some"),
                                          Event("verify", VerifyCall(user[1].hash, key, "false")),
                                          Event("stdout", "su: authentication failed") >>
    /\ UNCHANGED <<prog, argv, uid, cwd, passwd_db, user>>
    /\ UNCHANGED store_vars

\* su.rs spawn_shell, lines 91-110, and what follows each of its two calls:
\* exit(0) after line 79, the end of main after line 88.  The child's
\* status is dropped and a failure is only printed.
su_spawn_shell ==
    /\ prog = "su" /\ pc \in {"su_spawn_79", "su_spawn_88"}
    /\ \E r \in SpawnResults :
          log' = Append(log, Event("spawn", [ctx |-> su_context(user[1], cwd),
                                             result |-> r]))
    /\ pc' = "exited"
    /\ exit_code' = 0
    /\ UNCHANGED <<prog, argv, uid, cwd, passwd_db, stdin, user>>
    /\ UNCHANGED store_vars

---------------------------------------------------------------------------
(* login: src/bin/login.rs                                                 *)

\* login.rs spawn_shell, lines 113-124: the Command it builds
login_context(target) ==
    [program |-> target.shell,
     uid     |-> target.uid,
     gid     |-> target.gid,
     cwd     |-> target.home,
     env     |-> [USER   |-> target.user,
                  UID    |-> format_u32(target.uid),
                  GROUPS |-> format_u32(target.gid),
                  HOME   |-> target.home,
                  SHELL  |-> target.shell]]

\* login.rs main, lines 48-62: the help flag, then the banner
login_start ==
    /\ prog = "login" /\ pc = "start"
    /\ IF argv = <<"--help">>
       THEN pc' = "exited" /\ exit_code' = 0
       ELSE pc' = "login_read_line" /\ exit_code' = exit_code
    /\ UNCHANGED <<prog, argv, uid, cwd, passwd_db, stdin, user, log>>
    /\ UNCHANGED store_vars

\* login.rs main, lines 65-88 and 100-103: one pass of the loop up to the
\* password prompt.  The line editor reports end of input as an error, and
\* try() turns every error into exit(1).
login_read_line ==
    /\ prog = "login" /\ pc = "login_read_line"
    /\ LET key == next_key(stdin)
           found == get_user_by_name(passwd_db, key)
           asked == Append(log, Event("prompt", "redox login: "))
       IN  \/ /\ pc' = "exited" /\ exit_code' = 1
              /\ log' = Append(asked, Event("read_line", "Err"))
              /\ UNCHANGED <<stdin, user>>
           \/ /\ key # "EOT"
              /\ stdin' = rest(stdin)
              /\ exit_code' = exit_code
              /\ IF key = ""
                 THEN /\ pc' = "login_read_line"
                      /\ log' = Append(asked, Event("read_line", "empty"))
                      /\ UNCHANGED user
                 ELSE IF found = <<>>
                 THEN /\ pc' = "login_read_line"
                      /\ log' = asked \o << Event("read_line", "name"),
                                            Event("stdout", "Login incorrect") >>
                      /\ UNCHANGED user
                 ELSE IF found[1].hash = <<>>
                 THEN /\ pc' = "login_spawn"
                      /\ user' = found
                      /\ log' = Append(asked, Event("read_line", "name"))
                 ELSE /\ pc' = "login_read_passwd"
                      /\ user' = found
                      /\ log' = asked \o << Event("read_line", "name"),
                                            Event("passwd_prompt", found[1]) >>
    /\ UNCHANGED <<prog, argv, uid, cwd, passwd_db>>
    /\ UNCHANGED store_vars

\* lines 89-97 as they would be if a rejected password fell through to the
\* spawn, as it does in su
login_read_passwd_falls_through ==
    /\ prog = "login" /\ pc = "login_read_passwd"
    /\ \/ /\ pc' = "exited" /\ exit_code' = 1
          /\ log' = Append(log, Event("read_passwd", "Err"))
          /\ UNCHANGED stdin
       \/ /\ stdin' = rest(stdin)
          /\ LET key == next_key(stdin)
                 res == verify(user[1].hash, key)
             IN  IF key = "EOT"
                 THEN /\ pc' = "login_read_line" /\ exit_code' = exit_code
                      /\ log' = Append(log, Event("read_passwd", "None"))
                 ELSE IF res = "panic"
                 THEN /\ pc' = "exited" /\ exit_code' = 101
                      /\ log' = log \o << Event("read_passwd", "Some"),
                                          Event("verify", VerifyCall(user[1].hash, key, "panic")) >>
                 ELSE /\ pc' = "login_spawn" /\ exit_code' = exit_code
                      /\ log' = log \o << Event("read_passwd", "Some"),
                                          Event("verify", VerifyCall(user[1].hash, key, res)) >>
    /\ UNCHANGED <<prog, argv, uid, cwd, passwd_db, user>>
    /\ UNCHANGED store_vars

\* login.rs main, lines 89-97: read the password and verify it
login_read_passwd ==
    /\ prog = "login" /\ pc = "login_read_passwd"
    /\ \/ /\ pc' = "exited" /\ exit_code' = 1
          /\ log' = Append(log, Event("read_passwd", "Err"))
          /\ UNCHANGED stdin
       \/ /\ stdin' = rest(stdin)
          /\ LET key == next_key(stdin)
                 res == verify(user[1].hash, key)
             IN  IF key = "EOT"
                 THEN /\ pc' = "login_read_line" /\ exit_code' = exit_code
                      /\ log' = Append(log, Event("read_passwd", "None"))
                 ELSE IF res = "panic"
                 THEN /\ pc' = "exited" /\ exit_code' = 101
                      /\ log' = log \o << Event("read_passwd", "Some"),
                                          Event("verify", VerifyCall(user[1].hash, key, "panic")) >>
                 ELSE IF res = "true"
                 THEN /\ pc' = "login_spawn" /\ exit_code' = exit_code
                      /\ log' = log \o << Event("read_passwd", "Some"),
                                          Event("verify", VerifyCall(user[1].hash, key, "true")) >>
                 ELSE /\ pc' = "login_read_line" /\ exit_code' = exit_code
                      /\ log' = log \o << Event("read_passwd", "Some"),
                                          Event("verify", VerifyCall(user[1].hash, key, "false")) >>
    /\ UNCHANGED <<prog, argv, uid, cwd, passwd_db, user>>
    /\ UNCHANGED store_vars

\* login.rs spawn_shell, lines 107-133, then the break and the end of main:
\* a launch or wait failure panics, a completed child's status is dropped
login_spawn_shell ==
    /\ prog = "login" /\ pc = "login_spawn"
    /\ \E r \in SpawnResults :
          /\ log' = Append(log, Event("spawn", [ctx |-> login_context(user[1]),
                                                result |-> r]))
          /\ exit_code' = IF r[1] \in {"spawn_err", "wait_err"} THEN 101 ELSE 0
    /\ pc' = "exited"
    /\ UNCHANGED <<prog, argv, uid, cwd, passwd_db, stdin, user>>
    /\ UNCHANGED store_vars

---------------------------------------------------------------------------
(* sudo: src/bin/sudo.rs                                                   *)

\* the attempt bound of the elevation flow (its disabled implementation)
max_attempts == 3

\* sudo.rs main, lines 174-176: the body is empty, so the process ends with
\* exit code 0 having read, asked and launched nothing.  The elevation flow
\* of lines 43-172 is commented out and is not compiled.
sudo_main ==
    /\ prog = "sudo" /\ pc = "start"
    /\ pc' = "exited"
    /\ exit_code' = 0
    /\ UNCHANGED <<prog, argv, uid, cwd, passwd_db, stdin, user, log>>
    /\ UNCHANGED store_vars

---------------------------------------------------------------------------
(* The specification of the three binaries                                 *)

Init ==
    /\ prog \in {"su", "login", "sudo"}
    /\ argv \in Argvs
    /\ uid \in {0, 1000}
    /\ cwd \in {"/root", "/home/alice"}
    /\ passwd_db \in PasswdDbs
    /\ stdin \in Scripts
    /\ pc = "start"
    /\ user = <<>>
    /\ log = <<>>
    /\ exit_code = -1
    /\ files = <<>>
    /\ call = <<>>
    /\ ret = <<>>

Next ==
    \/ su_start
    \/ su_read_passwd
    \/ su_spawn_shell
    \/ login_start
    \/ login_read_line
    \/ login_read_passwd
    \/ login_spawn_shell
    \/ sudo_main

Spec == Init /\ [][Next]_vars

---------------------------------------------------------------------------
(* The specification of the lookups by id                                  *)

\* lines of /etc/passwd: uid 1, uid 1 again, too few fields, a uid that is
\* no number, and an eighth field (uid 3)
PasswdLines ==
    { str_join(<< <<"a">>, <<>>, <<"1">>, <<"2">>, <<"A">>, <<"/">>, <<"s">> >>, ";"),
      str_join(<< <<"b">>, <<"h">>, <<"1">>, <<"3">>, <<"B">>, <<"/">>, <<"t">> >>, ";"),
      str_join(<< <<"a">>, <<"h">>, <<"1">> >>, ";"),
      str_join(<< <<"d">>, <<"h">>, <<"x">>, <<"2">>, <<"D">>, <<"/">>, <<"s">> >>, ";"),
      str_join(<< <<"e">>, <<"h">>, <<"3">>, <<"3">>, <<"E">>, <<"/">>, <<"s">>, <<"z">> >>, ";") }

\* lines of /etc/group: gid 1, gid 1 again, too few fields, a gid that is
\* no number, and a fourth field (gid 3)
GroupLines ==
    { str_join(<< <<"g">>, <<"1">>, <<"a", ",", "b">> >>, ";"),
      str_join(<< <<"h">>, <<"1">>, <<"a">> >>, ";"),
      str_join(<< <<"g">>, <<"1">> >>, ";"),
      str_join(<< <<"g">>, <<"x">>, <<"a">> >>, ";"),
      str_join(<< <<"k">>, <<"3">>, <<"a">>, <<"z">> >>, ";") }

\* a file as the lookup finds it: it cannot be opened, it cannot be read, or
\* it holds up to MaxLines lines, each ended by "\n"
FileStates(lines) ==
    { [open |-> "err", read |-> "err", data |-> <<>>],
      [open |-> "ok",  read |-> "err", data |-> <<>>] }
    \cup { [open |-> "ok", read |-> "ok",
            data |-> str_join(ls \o << <<>> >>, "\n")] : ls \in SeqsUpTo(lines, MaxLines) }

QueryIds == {1, 2, 3}

InitStore ==
    /\ prog = "lib" /\ argv = <<>> /\ uid = 0 /\ cwd = "/"
    /\ passwd_db = <<>> /\ stdin = <<>> /\ user = <<>> /\ log = <<>>
    /\ pc = "start"
    /\ exit_code = -1
    /\ \E p \in FileStates(PasswdLines), g \in FileStates(GroupLines) :
          files = [f \in {PASSWD_FILE, GROUP_FILE} |-> IF f = PASSWD_FILE THEN p ELSE g]
    /\ \E fn \in {"get_passwd_by_id", "get_group_by_id"}, id \in QueryIds :
          call = <<fn, id>>
    /\ ret = <<>>

\* what a call of a lookup leaves: the process has exited, or the caller
\* holds the returned Option
finish(outcome) ==
    IF outcome[1] = "exit"
    THEN pc' = "exited" /\ exit_code' = outcome[2] /\ ret' = ret
    ELSE pc' = "returned" /\ exit_code' = exit_code /\ ret' = <<outcome[2]>>

call_get_passwd_by_id ==
    /\ pc = "start" /\ call # <<>> /\ call[1] = "get_passwd_by_id"
    /\ finish(get_passwd_by_id(files, call[2]))
    /\ UNCHANGED <<files, call>>
    /\ UNCHANGED bin_vars

call_get_group_by_id ==
    /\ pc = "start" /\ call # <<>> /\ call[1] = "get_group_by_id"
    /\ finish(get_group_by_id(files, call[2]))
    /\ UNCHANGED <<files, call>>
    /\ UNCHANGED bin_vars

NextStore ==
    \/ call_get_passwd_by_id
    \/ call_get_group_by_id

SpecStore == InitStore /\ [][NextStore]_vars

---------------------------------------------------------------------------
(* What the log says                                                       *)

\* the positions of the log's events of a kind
Events(kind) == { i \in 1..Len(log) : log[i][1] = kind }

\* spawn_shell has run: a Command was built and handed to the spawner
Spawned == Events("spawn") # {}

\* the lookup by name has found the target
Found == user # <<>>

\* su took the target as authenticated: it asked for no password, or
\* verify returned true
SuAccepted ==
    /\ Found
    /\ \/ Events("passwd_prompt") = {}
       \/ \E i \in Events("verify") : log[i][2].result = "true"

---------------------------------------------------------------------------
(* C1 .. C10                                                               *)

\* C1: in su, once verify has returned false for the password read, the
\* target's shell is never spawned.
C1_RejectedNeverSpawns ==
    (prog = "su" /\ \E i \in Events("verify") : log[i][2].result = "false")
        => ~Spawned

\* C2: a record with an empty hash is accepted by login and by su without a
\* password prompt and without a call of verify, whatever the caller's uid:
\* verify is never called on an empty hash, no password is asked for such a
\* record, and su ends having spawned the shell.
C2_EmptyHashSkipsVerification ==
    prog \in {"su", "login"} =>
        /\ \A i \in Events("verify") : log[i][2].hash # <<>>
        /\ \A i \in Events("passwd_prompt") : log[i][2].hash # <<>>
        /\ (prog = "su" /\ pc = "exited" /\ Found /\ user[1].hash = <<>>) => Spawned

\* C3: in su, a caller with real uid 0 and a target that is not the
\* superuser: no password is asked and verify is not called, whatever the
\* target's hash.
C3_RootCallerSkipsPassword ==
    (prog = "su" /\ uid = 0 /\ Found /\ user[1].uid # 0) =>
        /\ Events("passwd_prompt") = {}
        /\ Events("verify") = {}

\* C4: when read_passwd yields None the attempt is denied at once: no spawn
\* follows that read, and su, which has one attempt, ends without a shell
\* and with a non-zero exit code.
C4_EndOfInputDenies ==
    \A i \in Events("read_passwd") :
        log[i][2] = "None" =>
            /\ (i < Len(log) => log[i + 1][1] # "spawn")
            /\ prog = "su" => ~Spawned
            /\ (prog = "su" /\ pc = "exited") => exit_code # 0

\* the record of the caller of sudo: the first one with the caller's uid
caller_record ==
    LET hits == { i \in 1..Len(passwd_db) : passwd_db[i].uid = uid }
    IN  IF hits = {} THEN <<>>
        ELSE << passwd_db[CHOOSE i \in hits : \A j \in hits : i <= j] >>

\* the counts that the rejections reported, in order
ReportedCounts ==
    LET at == SelectSeq([i \in 1..Len(log) |-> i],
                        LAMBDA i : log[i][1] = "incorrect_password")
    IN  [k \in 1..Len(at) |-> log[at[k]][2]]

\* C5: sudo, run with a command by a caller who is not root and whose
\* record has a password (the caller being in the sudo group).  If the
\* terminal delivers max_attempts wrong passwords, sudo ends denied: a
\* non-zero exit code, max_attempts password prompts and no more, no
\* command launched, the rejections counted 1, 2, 3.  If it delivers fewer
\* wrong ones and then the right one, the command is launched.
C5_SudoBoundedAttempts ==
    (/\ prog = "sudo" /\ pc = "exited"
     /\ argv \notin { <<>>, <<"--help">> }
     /\ uid # 0
     /\ caller_record # <<>>
     /\ decodes(caller_record[1].hash)) =>
        LET h == caller_record[1].hash
            wrong(k) == k # "EOT" /\ verify(h, k) = "false"
            right(k) == k # "EOT" /\ verify(h, k) = "true"
        IN  /\ (/\ Len(stdin) >= max_attempts
                /\ \A i \in 1..max_attempts : wrong(stdin[i])) =>
                   /\ exit_code # 0
                   /\ ~Spawned
                   /\ Cardinality(Events("passwd_prompt")) = max_attempts
                   /\ ReportedCounts = [k \in 1..max_attempts |-> k]
            /\ \A n \in 0..(max_attempts - 1) :
                   (/\ Len(stdin) > n
                    /\ \A i \in 1..n : wrong(stdin[i])
                    /\ right(stdin[n + 1])) => Spawned

\* C6: su (not asked for its help text) ends with exit code 0 exactly when
\* the target was authenticated and its shell was launched and waited for;
\* a denial, an unknown target or a failed launch end it with a non-zero
\* code.
C6_SuExitCode ==
    (prog = "su" /\ pc = "exited" /\ argv # <<"--help">>) =>
        (exit_code = 0 <=>
            /\ SuAccepted
            /\ \E i \in Events("spawn") : log[i][2].result[1] = "exited")

\* C7: when the spawned child has ended with status s, the launching
\* process ends with exit code s.
C7_ChildStatusPropagated ==
    pc = "exited" =>
        \A i \in Events("spawn") :
            log[i][2].result[1] = "exited" => exit_code = log[i][2].result[2]

\* the security context of an authenticated target
IsTargetContext(ctx, target) ==
    /\ ctx.uid = target.uid
    /\ ctx.gid = target.gid
    /\ ctx.cwd = target.home
    /\ ctx.env.USER = target.user
    /\ parse_u32(ctx.env.UID) = <<target.uid>>
    /\ parse_u32(ctx.env.GROUPS) = <<target.gid>>
    /\ ctx.env.HOME = target.home
    /\ ctx.env.SHELL = target.shell

\* C8: the context that login and su build for an authenticated target has
\* the target's uid and gid, the target's home as working directory, and
\* USER, UID, GROUPS, HOME, SHELL set from the target.
C8_SecurityContext ==
    (prog \in {"su", "login"} /\ (prog = "su" => SuAccepted)) =>
        \A i \in Events("spawn") : IsTargetContext(log[i][2].ctx, user[1])

\* C9: verify on a stored hash that is not empty and does not decode
\* neither returns true nor false: the process panics there and ends with
\* a non-zero exit code, so nothing follows the call - no prompt, no
\* message of a failed authentication, no shell.
C9_CorruptHashAborts ==
    \A i \in Events("verify") :
        (log[i][2].hash # <<>> /\ ~decodes(log[i][2].hash)) =>
            /\ log[i][2].result = "panic"
            /\ i = Len(log)
            /\ pc = "exited"
            /\ exit_code # 0
            /\ ~Spawned

\* C9's case: login has called verify on a record whose hash is not empty
\* and does not decode
C9_Witness ==
    /\ prog = "login"
    /\ \E i \in Events("verify") :
          /\ log[i][2].hash # <<>>
          /\ ~decodes(log[i][2].hash)
          /\ log[i][2].password = "pw"

\* the file a call reads
called_file == files[IF call[1] = "get_passwd_by_id" THEN PASSWD_FILE ELSE GROUP_FILE]

\* whether some line of the data parses to a record with the id asked for
SomeLineMatches ==
    \E i \in 1..Len(str_lines(called_file.data)) :
        LET line == str_lines(called_file.data)[i]
        IN  IF call[1] = "get_passwd_by_id"
            THEN Passwd_parse(line) # <<>> /\ Passwd_parse(line)[1].uid = call[2]
            ELSE Group_parse(line) # <<>> /\ Group_parse(line)[1].gid = call[2]

\* C10: get_passwd_by_id and get_group_by_id return None only when the file
\* was opened and read and no line of it matches; when the file cannot be
\* opened or read the call does not return: the process exits with code 1.
C10_NoneOnlyAfterRead ==
    /\ (pc = "returned" /\ ret = << <<"None">> >>) =>
           /\ called_file.open = "ok"
           /\ called_file.read = "ok"
           /\ ~SomeLineMatches
    /\ (pc # "start" /\ (called_file.open = "err" \/ called_file.read = "err")) =>
           /\ pc = "exited"
           /\ exit_code = 1
           /\ ret = <<>>

\* C10's case: a file with lines was read, none matched, None was returned
C10_Witness ==
    /\ pc = "returned"
    /\ ret = << <<"None">> >>
    /\ called_file.data # <<>>

---------------------------------------------------------------------------
(* C11 .. C15                                                              *)

\* the lines of the file a call reads
called_lines == str_lines(called_file.data)

\* the positions of the lines that parse to a record with the id asked for
MatchingLines ==
    { i \in 1..Len(called_lines) :
        IF call[1] = "get_passwd_by_id"
        THEN Passwd_parse(called_lines[i]) # <<>>
             /\ Passwd_parse(called_lines[i])[1].uid = call[2]
        ELSE Group_parse(called_lines[i]) # <<>>
             /\ Group_parse(called_lines[i])[1].gid = call[2] }

\* the record that a line parses to
record_of(line) ==
    IF call[1] = "get_passwd_by_id" THEN Passwd_parse(line)[1] ELSE Group_parse(line)[1]

\* C11: a lookup by id that returns, returns the record of the earliest
\* line of the file among those that parse and carry the id, and None iff
\* no such line exists; lines before it that do not parse change nothing.
C11_FirstMatchInFileOrder ==
    pc = "returned" =>
        IF MatchingLines = {} THEN ret = << <<"None">> >>
        ELSE LET first == CHOOSE i \in MatchingLines : \A j \in MatchingLines : i <= j
             IN  ret = << <<"Some", record_of(called_lines[first])>> >>

\* C11's case: the file holds two lines with the id asked for, or a line
\* that does not parse before the one returned
C11_Witness ==
    /\ pc = "returned"
    /\ Len(ret[1]) = 2
    /\ \/ Cardinality(MatchingLines) = 2
       \/ /\ MatchingLines = {2}
          /\ (IF call[1] = "get_passwd_by_id"
              THEN Passwd_parse(called_lines[1]) ELSE Group_parse(called_lines[1])) = <<>>

---------------------------------------------------------------------------
(* The specification of the parsers: Passwd::parse, Group::parse and the   *)
(* parse_file of each, applied to lines, files and written-out records     *)

\* the fields of the lines: empty, a word, a number
LineFields == { <<>>, <<"a">>, <<"7">> }

\* the lines handed to parse: 1 to MaxFields fields joined by ";"
ParseLines ==
    { str_join(fs, ";") : fs \in SeqsUpTo(LineFields, MaxFields) \ { <<>> } }

\* the files handed to parse_file: up to MaxFileLines lines, each ended by "\n"
ParseFiles(lines) ==
    { str_join(ls \o << <<>> >>, "\n") : ls \in SeqsUpTo(lines, MaxFileLines) }

\* the text fields of the records written out: empty, a path, a list of
\* names, and two that hold a ";" or a line break
TextFields == { <<>>, <<"/", "a">>, <<"a", ",", "b">>, <<"a", ";">>, <<"\n">> }

Ids == {0, 7, 1000}

PasswdRecords ==
    [user : TextFields, hash : {<<>>, <<"h">>}, uid : Ids, gid : Ids,
     name : {<<"A">>}, home : TextFields, shell : {<<"/", "s">>, <<"a", ";">>}]

GroupRecords == [group : TextFields, gid : Ids, users : TextFields]

\* a user record as a line of /etc/passwd: name;hash;uid;gid;name;home;shell
Passwd_line(p) ==
    str_join(<< p.user, p.hash, format_u32(p.uid), format_u32(p.gid),
                p.name, p.home, p.shell >>, ";")

\* a group record as a line of /etc/group: name;gid;members
Group_line(g) == str_join(<< g.group, format_u32(g.gid), g.users >>, ";")

InitParse ==
    /\ prog = "lib" /\ argv = <<>> /\ uid = 0 /\ cwd = "/"
    /\ passwd_db = <<>> /\ stdin = <<>> /\ user = <<>> /\ log = <<>>
    /\ pc = "start"
    /\ exit_code = -1
    /\ files = <<>>
    /\ \/ \E fn \in {"Passwd::parse", "Group::parse"}, line \in ParseLines :
             call = <<fn, line>>
       \/ \E data \in ParseFiles(PasswdLines) : call = <<"Passwd::parse_file", data>>
       \/ \E data \in ParseFiles(GroupLines) : call = <<"Group::parse_file", data>>
       \/ \E p \in PasswdRecords : call = <<"write and parse Passwd", p>>
       \/ \E g \in GroupRecords : call = <<"write and parse Group", g>>
    /\ ret = <<>>

\* a call of a parser returns its result to the caller
returns(fn, result) ==
    /\ pc = "start" /\ call # <<>> /\ call[1] = fn
    /\ pc' = "returned"
    /\ ret' = << result >>
    /\ UNCHANGED <<files, call, exit_code>>
    /\ UNCHANGED bin_vars

call_Passwd_parse == returns("Passwd::parse", Passwd_parse(call[2]))

call_Group_parse == returns("Group::parse", Group_parse(call[2]))

call_Passwd_parse_file ==
    returns("Passwd::parse_file", <<"Ok", Passwd_parse_file(call[2])>>)

call_Group_parse_file ==
    returns("Group::parse_file", <<"Ok", Group_parse_file(call[2])>>)

write_and_parse_Passwd ==
    returns("write and parse Passwd", Passwd_parse(Passwd_line(call[2])))

write_and_parse_Group ==
    returns("write and parse Group", Group_parse(Group_line(call[2])))

NextParse ==
    \/ call_Passwd_parse
    \/ call_Group_parse
    \/ call_Passwd_parse_file
    \/ call_Group_parse_file
    \/ write_and_parse_Passwd
    \/ write_and_parse_Group

SpecParse == InitParse /\ [][NextParse]_vars

\* the number of fields of a line: one more than its ";"
FieldCount(line) == Cardinality({ i \in 1..Len(line) : line[i] = ";" }) + 1

\* the i-th field of a line: what lies between its (i-1)-th and i-th ";"
FieldAt(line, i) ==
    LET semis == { k \in 1..Len(line) : line[k] = ";" }
        before(k) == Cardinality({ j \in semis : j < k })
    IN  SelectSeq([k \in 1..Len(line) |-> <<k, line[k]>>],
                  LAMBDA e : e[2] # ";" /\ before(e[1]) = i - 1)

\* whether a field is an unsigned integer in decimal digits
IsUnsigned(field) ==
    /\ field # <<>>
    /\ \A k \in 1..Len(field) : field[k][2] \in {"0", "1", "2", "3", "4", "5", "6", "7", "8", "9"}

\* C12: Passwd::parse yields a record only for a line of exactly 7 fields
\* whose third and fourth are unsigned integers, and Group::parse only for
\* a line of exactly 3 fields whose second is one; every other line - fewer
\* fields, more fields, a field that is no number - yields the error.
C12_ExactArity ==
    (pc = "returned" /\ call[1] \in {"Passwd::parse", "Group::parse"}) =>
        LET line == call[2]
            wellformed ==
                IF call[1] = "Passwd::parse"
                THEN /\ FieldCount(line) = 7
                     /\ IsUnsigned(FieldAt(line, 3))
                     /\ IsUnsigned(FieldAt(line, 4))
                ELSE /\ FieldCount(line) = 3
                     /\ IsUnsigned(FieldAt(line, 2))
        IN  (ret[1] # <<>>) <=> wellformed

\* the positions of the lines that parse, in file order
ParsedAt(lines, fn) ==
    SelectSeq([i \in 1..Len(lines) |-> i],
              LAMBDA i : (IF fn = "Passwd::parse_file"
                          THEN Passwd_parse(lines[i]) ELSE Group_parse(lines[i])) # <<>>)

\* C13: parse_file returns Ok with exactly the records of the lines that
\* parse, in file order; a line that does not parse adds no record and no
\* error, and the result is that of the file without such lines.
C13_MalformedLinesSkipped ==
    (pc = "returned" /\ call[1] \in {"Passwd::parse_file", "Group::parse_file"}) =>
        LET lines   == str_lines(call[2])
            good    == ParsedAt(lines, call[1])
            one(l)  == IF call[1] = "Passwd::parse_file"
                       THEN Passwd_parse(l)[1] ELSE Group_parse(l)[1]
            cleaned == str_join([k \in 1..Len(good) |-> lines[good[k]]] \o << <<>> >>, "\n")
            again   == IF call[1] = "Passwd::parse_file"
                       THEN Passwd_parse_file(cleaned) ELSE Group_parse_file(cleaned)
        IN  /\ ret[1][1] = "Ok"
            /\ Len(ret[1][2]) = Len(good)
            /\ \A k \in 1..Len(good) : ret[1][2][k] = one(lines[good[k]])
            /\ ret[1][2] = again

\* C13's case: a file whose second line does not parse, between two that do
C13_Witness ==
    /\ pc = "returned"
    /\ call[1] \in {"Passwd::parse_file", "Group::parse_file"}
    /\ Len(str_lines(call[2])) = 3
    /\ ParsedAt(str_lines(call[2]), call[1]) = <<1, 3>>
    /\ Len(ret[1][2]) = 2

\* whether a text holds neither a ";" nor a line break
Plain(text) == \A i \in 1..Len(text) : text[i] \notin {";", "\n", "\r"}

\* C14: a user or group record whose text fields hold neither ";" nor a
\* line break, written as a line in the documented field order and parsed,
\* comes back equal in every field.
C14_RoundTrip ==
    /\ (/\ pc = "returned" /\ call[1] = "write and parse Passwd"
        /\ Plain(call[2].user) /\ Plain(call[2].hash) /\ Plain(call[2].name)
        /\ Plain(call[2].home) /\ Plain(call[2].shell))
           => ret = << << call[2] >> >>
    /\ (/\ pc = "returned" /\ call[1] = "write and parse Group"
        /\ Plain(call[2].group) /\ Plain(call[2].users))
           => ret = << << call[2] >> >>

\* C14's case: a user record with an empty hash, a four-digit uid and a
\* path as home has been written and parsed
C14_Witness ==
    /\ pc = "returned" /\ call[1] = "write and parse Passwd"
    /\ call[2].hash = <<>> /\ call[2].uid = 1000 /\ call[2].gid = 7
    /\ call[2].user = <<"a", ",", "b">> /\ call[2].home = <<"/", "a">>
    /\ call[2].shell = <<"/", "s">>
    /\ ret = << << call[2] >> >>

\* the spawns a log holds
SpawnsIn(l) == { i \in 1..Len(l) : l[i][1] = "spawn" }

\* the step is a read that failed: try() ends the process
ReadFailed ==
    /\ Len(log') > Len(log)
    /\ log'[Len(log')][1] \in {"read_line", "read_passwd"}
    /\ log'[Len(log')][2] = "Err"

\* login goes on to spawn only for the record that the lookup of the name
\* just read returns, its hash being empty, or for the record at hand when
\* verify returns true on the secret just read
SpawnIsEarned ==
    (pc # "login_spawn" /\ pc' = "login_spawn") =>
        /\ stdin # <<>>
        /\ stdin' = Tail(stdin)
        /\ \/ /\ pc = "login_read_line"
              /\ user' = get_user_by_name(passwd_db, Head(stdin))
              /\ user' # <<>>
              /\ user'[1].hash = <<>>
           \/ /\ pc = "login_read_passwd"
              /\ user' = user
              /\ user[1] \in { passwd_db[i] : i \in 1..Len(passwd_db) }
              /\ user[1].hash # <<>>
              /\ verify(user[1].hash, Head(stdin)) = "true"

\* a spawn is made from the spawn position only, for the record at hand
SpawnIsForTarget ==
    SpawnsIn(log') # SpawnsIn(log) =>
        /\ pc = "login_spawn"
        /\ log'[Len(log')][2].ctx.env.USER = user[1].user
        /\ log'[Len(log')][2].ctx.uid = user[1].uid

\* an empty name, an unknown name, a rejected secret and the end of input
\* at the password prompt lead back to the name prompt, with no spawn
RetryWithoutSpawn ==
    (/\ ~ReadFailed
     /\ \/ /\ pc = "login_read_line" /\ stdin # <<>>
           /\ \/ Head(stdin) = ""
              \/ Head(stdin) # "EOT" /\ get_user_by_name(passwd_db, Head(stdin)) = <<>>
        \/ /\ pc = "login_read_passwd"
           /\ \/ next_key(stdin) = "EOT"
              \/ verify(user[1].hash, next_key(stdin)) = "false") =>
        /\ pc' = "login_read_line"
        /\ SpawnsIn(log') = {}

\* main returns (exit code 0, not for the help text) only when the shell
\* was spawned and waited for
EndsAfterWait ==
    (pc' = "exited" /\ exit_code' = 0 /\ argv # <<"--help">>) =>
        \E i \in SpawnsIn(log') : log'[i][2].result[1] = "exited"

\* C15: in every run of login the shell is spawned at most once, and only
\* for a record the name lookup returned whose hash is empty or whose
\* verify returned true on the secret just read; an empty name, an unknown
\* name, a rejected secret or the end of input at the password prompt lead
\* back to the name prompt without a spawn; and the loop ends only once the
\* spawned shell has been waited for.
C15_LoginLoop ==
    [][prog = "login" =>
          /\ Cardinality(SpawnsIn(log')) <= 1
          /\ SpawnIsEarned
          /\ SpawnIsForTarget
          /\ RetryWithoutSpawn
          /\ EndsAfterWait]_vars

\* C15's case: login has rejected a secret, gone back to the name prompt,
\* and then spawned the shell of a record, and ended
C15_Witness ==
    /\ prog = "login" /\ pc = "exited" /\ exit_code = 0
    /\ \E i \in Events("verify"), j \in Events("spawn") :
          /\ i < j
          /\ log[i][2].result = "false"
          /\ log[j][2].result[1] = "exited"

===========================================================================
